---- MODULE Spec2Model ----
(***************************************************************************)
(* A model of LoLMatchProcessor (src/LoLMatchProcessor.py): the minute-14  *)
(* snapshot extractor get_14_min_stats, the batch runner                   *)
(* process_matches_batch and the role-differential transforms role_*_diff. *)
(*                                                                         *)
(* Python values that may be None (dict.get without a default) are         *)
(* modelled as sets of at most one element: {} is None, {v} is v.          *)
(* Python's 0-based frames[i] is Frame(frames, i) == frames[i + 1].        *)
(***************************************************************************)
EXTENDS Integers, Sequences, FiniteSets, TLC

VARIABLES
    \* ---- get_14_min_stats ----
    match_data,     \* the match summary payload (info.queueId, info.gameVersion, info.participants)
    timeline_data,  \* the timeline payload (info.frames, or no such key)
    pc,             \* position in get_14_min_stats
    framesRead,     \* TRUE once timeline_data['info']['frames'] has been evaluated (line 149)
    players,        \* the merged participants x frame-14 table (line 170)
    counters,       \* the eight defaultdict(int) accumulators (lines 176-183)
    scanned,        \* number of events of frames[:15] already visited by the loop of line 186
    result,         \* the returned table (a sequence of rows), <<>> for an empty DataFrame
    \* ---- role_*_diff ----
    table,          \* the players table handed to a role-differential transform
    outColumn,      \* the column the transform added, "" before it ran
    outValues,      \* that column's values, row by row (floats, held as exact fractions)
    \* ---- process_matches_batch ----
    match_ids,      \* the match ids to process
    batch_size,     \* the batch_size argument
    checkpoint_path,\* the checkpoint_path argument, None when not supplied
    bpc,            \* position in process_matches_batch
    loop_i,         \* the outer loop's i: the offset of the current batch
    loop_j,         \* the inner loop's j: the 1-based place in the current batch
    all_data,       \* the per-match tables accumulated so far
    file,           \* the content of the file at checkpoint_path, None when there is no file
    printed,        \* the match ids announced by the print of line 272
    final_df,       \* the returned table
    \* ---- fetch_with_retry and _safe_get ----
    fetcher,        \* which of the two functions is running
    fpc,            \* position in it
    requests,       \* number of requests.get calls issued so far
    resp,           \* the last response: its status code and whether its body parses as JSON
    slept,          \* seconds spent in time.sleep so far
    fetched         \* the returned value: None or the parsed body

extractVars == <<match_data, timeline_data, pc, framesRead, players, counters, scanned, result>>
roleVars == <<table, outColumn, outValues>>

batchVars ==
    <<match_ids, batch_size, checkpoint_path, bpc, loop_i, loop_j, all_data, file, printed, final_df>>

fetchVars == <<fetcher, fpc, requests, resp, slept, fetched>>

vars == <<extractVars, roleVars, batchVars, fetchVars>>

(***************************************************************************)
(* Program constants.                                                      *)
(***************************************************************************)
RankedSoloQueue == 420
SnapshotFrame == 14
ScanFrames == 15
CutoffMs == 840000
SafeGetRetries == 3
RetryDelay == 10

ExcludedPatch == <<"1", "5", ".", "9">>
CountedWardTypes == {"YELLOW_TRINKET", "BLUE_TRINKET", "CONTROL_WARD"}

(***************************************************************************)
(* Bounds of the model.                                                    *)
(***************************************************************************)
MaxEvents == 2
MaxRows == 3
MaxValue == 2
MaxMatches == 3
MaxRequests == 4

(***************************************************************************)
(* Python helpers.                                                         *)
(***************************************************************************)
\* Truthiness of an optional integer: None and 0 are falsy.
Truthy(o) == o # {} /\ o # {0}

\* The value held by a non-None optional.
Val(o) == CHOOSE v \in o : TRUE

\* str.startswith on strings held as sequences of characters.
StartsWith(s, prefix) ==
    /\ Len(s) >= Len(prefix)
    /\ SubSeq(s, 1, Len(prefix)) = prefix

\* frames[i] with Python's 0-based index.
Frame(fs, i) == fs[i + 1]

\* frames[:n]
Prefix(fs, n) == SubSeq(fs, 1, IF Len(fs) < n THEN Len(fs) ELSE n)

\* defaultdict(int): a function on the keys inserted so far.
EmptyDict == <<>>
Get(d, k) == IF k \in DOMAIN d THEN d[k] ELSE 0
Inc(d, k) == IF k \in DOMAIN d THEN [d EXCEPT ![k] = @ + 1] ELSE d @@ (k :> 1)

RECURSIVE IncAll(_, _)
IncAll(d, ids) ==
    IF ids = <<>> THEN d ELSE IncAll(Inc(d, {Head(ids)}), Tail(ids))

(***************************************************************************)
(* Inputs of get_14_min_stats: match summaries and timelines.              *)
(***************************************************************************)
ParticipantIds == 1..10
TeamPositions == <<"TOP", "JUNGLE", "MIDDLE", "BOTTOM", "UTILITY">>

\* match_data['info']['participants']: ten records, five per team, the
\* teams' positions mirroring each other.
Participants ==
    [p \in ParticipantIds |->
        [participantId |-> p,
         teamId |-> IF p <= 5 THEN 100 ELSE 200,
         teamPosition |-> TeamPositions[((p - 1) % 5) + 1],
         firstBloodKill |-> (p = 1),
         win |-> (p <= 5)]]

\* frames[14]['participantFrames'][id]
ParticipantFrame(p) ==
    [totalGold |-> 500 * p, xp |-> 400 * p,
     minionsKilled |-> 10 * p, jungleMinionsKilled |-> p]

GameVersions == {<<"1", "5", ".", "9", ".", "1">>, <<"1", "5", ".", "8", ".", "1">>}
QueueIds == {{RankedSoloQueue}, {440}, {}}

MatchSummaries ==
    [queueId : QueueIds, gameVersion : GameVersions, participants : {Participants}]

\* An event; a field the payload does not carry is None.
Event(type, ts) ==
    [type |-> type, timestamp |-> ts, killerId |-> {}, victimId |-> {},
     assistingParticipantIds |-> <<>>, buildingType |-> {}, monsterType |-> {},
     killerTeamId |-> {}, wardType |-> {}, creatorId |-> {}]

ChampionKillEvent(ts, killer, victim, assists) ==
    [Event("CHAMPION_KILL", ts) EXCEPT
        !.killerId = killer, !.victimId = victim, !.assistingParticipantIds = assists]
PlateEvent(ts, killer) ==
    [Event("TURRET_PLATE_DESTROYED", ts) EXCEPT !.killerId = killer]
BuildingEvent(ts, building, killer) ==
    [Event("BUILDING_KILL", ts) EXCEPT !.buildingType = {building}, !.killerId = killer]
MonsterEvent(ts, monster, team) ==
    [Event("ELITE_MONSTER_KILL", ts) EXCEPT !.monsterType = {monster}, !.killerTeamId = team]
WardEvent(ts, ward, creator) ==
    [Event("WARD_PLACED", ts) EXCEPT !.wardType = ward, !.creatorId = creator]

\* The event shapes the timelines are built from, at a given timestamp.
EventShapes(ts) ==
    {ChampionKillEvent(ts, {1}, {6}, <<2>>),
     ChampionKillEvent(ts, {0}, {6}, <<>>),
     ChampionKillEvent(ts, {}, {1}, <<>>),
     PlateEvent(ts, {1}),
     BuildingEvent(ts, "TOWER_BUILDING", {6}),
     BuildingEvent(ts, "INHIBITOR_BUILDING", {6}),
     MonsterEvent(ts, "DRAGON", {100}),
     MonsterEvent(ts, "HORDE", {200}),
     MonsterEvent(ts, "RIFTHERALD", {100}),
     WardEvent(ts, {"YELLOW_TRINKET"}, {1}),
     WardEvent(ts, {"BLUE_TRINKET"}, {6}),
     WardEvent(ts, {"CONTROL_WARD"}, {}),
     WardEvent(ts, {"SIGHT_WARD"}, {1}),
     WardEvent(ts, {}, {1}),
     Event("ITEM_PURCHASED", ts)}

LateShapes(ts) ==
    {ChampionKillEvent(ts, {1}, {6}, <<2>>),
     PlateEvent(ts, {1}),
     BuildingEvent(ts, "TOWER_BUILDING", {6}),
     MonsterEvent(ts, "DRAGON", {100}),
     WardEvent(ts, {"YELLOW_TRINKET"}, {1})}

\* An event placed in a frame of the timeline.
Placed(f, e) == [frame |-> f, event |-> e]

PlacedEvents ==
    {Placed(SnapshotFrame, e) : e \in EventShapes({CutoffMs})}
    \cup {Placed(SnapshotFrame, e) : e \in LateShapes({CutoffMs + 1})}
    \cup {Placed(SnapshotFrame + 1, e) : e \in LateShapes({CutoffMs})}
    \cup {Placed(0, ChampionKillEvent({}, {1}, {6}, <<2>>))}

FewPlacedEvents ==
    {Placed(SnapshotFrame, ChampionKillEvent({CutoffMs}, {1}, {6}, <<2>>))}

SeqsUpTo(S, n) == UNION {[1..k -> S] : k \in 0..n}

RECURSIVE EventsAt(_, _)
EventsAt(placed, f) ==
    IF placed = <<>> THEN <<>>
    ELSE (IF Head(placed).frame = f THEN <<Head(placed).event>> ELSE <<>>)
         \o EventsAt(Tail(placed), f)

\* A timeline of n frames; frame 14 carries participantFrames for pfIds
\* when pfPresent, every other frame for all ten participants.
Timeline(n, pfPresent, pfIds, placed) ==
    [hasFrames |-> TRUE,
     frames |-> [i \in 1..n |->
        [pfPresent |-> (i # SnapshotFrame + 1) \/ pfPresent,
         pfIds |-> IF i = SnapshotFrame + 1 THEN pfIds ELSE ParticipantIds,
         events |-> EventsAt(placed, i - 1)]]]

\* A payload whose 'info' holds no 'frames'.
MalformedTimeline == [hasFrames |-> FALSE, frames |-> <<>>]

FrameCounts == {0, SnapshotFrame, SnapshotFrame + 1, SnapshotFrame + 2}
PartialRosters == {{}, {1}, 1..5, 1..9}

Timelines ==
    {MalformedTimeline}
    \cup {Timeline(n, TRUE, ParticipantIds, pl) :
            n \in FrameCounts, pl \in SeqsUpTo(FewPlacedEvents, 1)}
    \cup {Timeline(SnapshotFrame + 1, FALSE, {}, pl) : pl \in SeqsUpTo(FewPlacedEvents, 1)}
    \cup {Timeline(SnapshotFrame + 1, TRUE, ids, pl) :
            ids \in PartialRosters, pl \in SeqsUpTo(FewPlacedEvents, 1)}
    \cup {Timeline(SnapshotFrame + 2, TRUE, ParticipantIds, pl) :
            pl \in SeqsUpTo(PlacedEvents, MaxEvents)}

(***************************************************************************)
(* get_14_min_stats: the eligibility filters (lines 137-158).              *)
(***************************************************************************)
\* line 141: game_version.startswith("15.9")
PatchExcluded(md) == StartsWith(md.gameVersion, ExcludedPatch)

\* A variant of the queue filter that lets a match without a queueId through.
QueueRejectedWhenPresent(md) == md.queueId # {} /\ md.queueId # {RankedSoloQueue}

\* line 146: queue_id != 420 (a missing queueId is None, which differs from 420)
QueueRejected(md) == md.queueId # {RankedSoloQueue}

\* line 156: len(frames) <= 14 or 'participantFrames' not in frames[14]
TooShort(fs) ==
    \/ Len(fs) <= SnapshotFrame
    \/ ~Frame(fs, SnapshotFrame).pfPresent

(***************************************************************************)
(* get_14_min_stats: the join (lines 152-174).                             *)
(***************************************************************************)
RECURSIVE InnerJoin(_, _)
\* participants.merge(minute14_df, on='participantId'): the rows of the left
\* table, in its order, whose participantId the right table holds.
InnerJoin(left, ids) ==
    IF left = <<>> THEN <<>>
    ELSE (IF Head(left).participantId \in ids
            THEN <<[participantId |-> Head(left).participantId,
                    teamId |-> Head(left).teamId,
                    teamPosition |-> Head(left).teamPosition,
                    firstBloodKill |-> Head(left).firstBloodKill,
                    win |-> Head(left).win,
                    totalGold |-> ParticipantFrame(Head(left).participantId).totalGold,
                    xp |-> ParticipantFrame(Head(left).participantId).xp,
                    minionsKilled |-> ParticipantFrame(Head(left).participantId).minionsKilled,
                    jungleMinionsKilled |->
                        ParticipantFrame(Head(left).participantId).jungleMinionsKilled]>>
            ELSE <<>>)
         \o InnerJoin(Tail(left), ids)

(***************************************************************************)
(* get_14_min_stats: the event aggregation (lines 176-229).                *)
(***************************************************************************)
NoCounters ==
    [kills_14 |-> EmptyDict, deaths_14 |-> EmptyDict, assists_14 |-> EmptyDict,
     plates_taken |-> EmptyDict, towers_killed |-> EmptyDict, dragons |-> EmptyDict,
     horde_kills |-> EmptyDict, wards_placed |-> EmptyDict]

\* line 188: t = event.get('timestamp', 0)
Timestamp(e) == IF e.timestamp = {} THEN 0 ELSE Val(e.timestamp)

\* A variant of the cutoff that also skips an event stamped exactly 840000.
PastCutoffAtBoundary(e) == Timestamp(e) >= CutoffMs

\* line 189: if t > 840000: continue
PastCutoff(e) == Timestamp(e) > CutoffMs

\* A variant of the kill handler that credits any killerId that is not None.
ChampionKillAnyKiller(c, e) ==
    LET k == IF e.killerId # {} THEN Inc(c.kills_14, e.killerId) ELSE c.kills_14
        d == IF Truthy(e.victimId) THEN Inc(c.deaths_14, e.victimId) ELSE c.deaths_14
        a == IncAll(c.assists_14, e.assistingParticipantIds)
    IN  [c EXCEPT !.kills_14 = k, !.deaths_14 = d, !.assists_14 = a]

\* lines 193-201
ChampionKill(c, e) ==
    LET k == IF Truthy(e.killerId) THEN Inc(c.kills_14, e.killerId) ELSE c.kills_14
        d == IF Truthy(e.victimId) THEN Inc(c.deaths_14, e.victimId) ELSE c.deaths_14
        a == IncAll(c.assists_14, e.assistingParticipantIds)
    IN  [c EXCEPT !.kills_14 = k, !.deaths_14 = d, !.assists_14 = a]

\* lines 205-207
PlateDestroyed(c, e) ==
    IF Truthy(e.killerId)
        THEN [c EXCEPT !.plates_taken = Inc(c.plates_taken, e.killerId)]
        ELSE c

\* lines 210-213
BuildingKill(c, e) ==
    IF e.buildingType = {"TOWER_BUILDING"} /\ Truthy(e.killerId)
        THEN [c EXCEPT !.towers_killed = Inc(c.towers_killed, e.killerId)]
        ELSE c

\* lines 218-223
EliteMonsterKill(c, e) ==
    IF ~Truthy(e.killerTeamId) THEN c
    ELSE IF e.monsterType = {"DRAGON"}
        THEN [c EXCEPT !.dragons = Inc(c.dragons, e.killerTeamId)]
    ELSE IF e.monsterType = {"HORDE"}
        THEN [c EXCEPT !.horde_kills = Inc(c.horde_kills, e.killerTeamId)]
    ELSE c

\* A variant of the ward filter that counts a ward of any type.
WardCountedAnyType(e) == e.wardType # {}

\* line 228: ward_type in ['YELLOW_TRINKET', 'BLUE_TRINKET', 'CONTROL_WARD']
WardCounted(e) == e.wardType # {} /\ e.wardType \subseteq CountedWardTypes

\* lines 226-229
WardPlaced(c, e) ==
    IF WardCounted(e)
        THEN [c EXCEPT !.wards_placed = Inc(c.wards_placed, e.creatorId)]
        ELSE c

\* The body of the inner loop, lines 188-229.
ApplyEvent(c, e) ==
    IF PastCutoff(e) THEN c
    ELSE LET c1 == IF e.type = "CHAMPION_KILL" THEN ChampionKill(c, e) ELSE c
             c2 == IF e.type = "TURRET_PLATE_DESTROYED" THEN PlateDestroyed(c1, e) ELSE c1
             c3 == IF e.type = "BUILDING_KILL" THEN BuildingKill(c2, e) ELSE c2
             c4 == IF e.type = "ELITE_MONSTER_KILL" THEN EliteMonsterKill(c3, e) ELSE c3
         IN  IF e.type = "WARD_PLACED" THEN WardPlaced(c4, e) ELSE c4

RECURSIVE Flatten(_)
Flatten(fs) == IF fs = <<>> THEN <<>> ELSE Head(fs).events \o Flatten(Tail(fs))

\* The events the loops of lines 186-187 visit, in order.
ScanList(fs) == Flatten(Prefix(fs, ScanFrames))

(***************************************************************************)
(* get_14_min_stats: the output rows (lines 232-257).                      *)
(***************************************************************************)
\* line 245: replace({'UTILITY': 'SUPPORT'})
RenamePosition(pos) == IF pos = "UTILITY" THEN "SUPPORT" ELSE pos

\* astype(int) of a bool
BoolToInt(b) == IF b THEN 1 ELSE 0

\* One output row: the counters mapped onto the participant or the team.
OutputRow(r, c) ==
    [participantId |-> r.participantId,
     totalGold |-> r.totalGold,
     minionsKilled |-> r.minionsKilled,
     jungleMinionsKilled |-> r.jungleMinionsKilled,
     totalMinionsKilled |-> r.minionsKilled + r.jungleMinionsKilled,
     xp |-> r.xp,
     wards_placed |-> Get(c.wards_placed, {r.participantId}),
     kills_14 |-> Get(c.kills_14, {r.participantId}),
     deaths_14 |-> Get(c.deaths_14, {r.participantId}),
     assists_14 |-> Get(c.assists_14, {r.participantId}),
     platesTaken_14 |-> Get(c.plates_taken, {r.participantId}),
     towersKilled_14 |-> Get(c.towers_killed, {r.participantId}),
     firstBloodKill |-> BoolToInt(r.firstBloodKill),
     teamDragonKills_14 |-> Get(c.dragons, {r.teamId}),
     teamHordeKills_14 |-> Get(c.horde_kills, {r.teamId}),
     teamId |-> r.teamId,
     teamPosition |-> RenamePosition(r.teamPosition),
     win |-> BoolToInt(r.win)]

OutputRows(rows, c) == [i \in 1..Len(rows) |-> OutputRow(rows[i], c)]

(***************************************************************************)
(* get_14_min_stats as a state machine.                                    *)
(***************************************************************************)
ExtractInit ==
    /\ table = <<>>
    /\ outColumn = ""
    /\ outValues = <<>>
    /\ match_ids = <<>>
    /\ batch_size = 1
    /\ checkpoint_path = {}
    /\ bpc = "idle"
    /\ loop_i = 0
    /\ loop_j = 1
    /\ all_data = <<>>
    /\ file = {}
    /\ printed = <<>>
    /\ final_df = <<>>
    /\ match_data \in MatchSummaries
    /\ timeline_data \in Timelines
    /\ pc = "patch"
    /\ framesRead = FALSE
    /\ players = <<>>
    /\ counters = NoCounters
    /\ scanned = 0
    /\ result = <<>>
    /\ fetcher = ""
    /\ fpc = "idle"
    /\ requests = 0
    /\ resp = [status_code |-> 0, json |-> FALSE]
    /\ slept = 0
    /\ fetched = {}

\* lines 141-143
CheckPatch ==
    /\ pc = "patch"
    /\ pc' = IF PatchExcluded(match_data) THEN "returned" ELSE "queue"
    /\ UNCHANGED <<match_data, timeline_data, framesRead, players, counters, scanned, result>>
    /\ UNCHANGED <<roleVars, batchVars, fetchVars>>

\* lines 146-147
CheckQueue ==
    /\ pc = "queue"
    /\ pc' = IF QueueRejected(match_data) THEN "returned" ELSE "frames"
    /\ UNCHANGED <<match_data, timeline_data, framesRead, players, counters, scanned, result>>
    /\ UNCHANGED <<roleVars, batchVars, fetchVars>>

\* line 149: frames = timeline_data['info']['frames'] (KeyError without the key)
ReadFrames ==
    /\ pc = "frames"
    /\ framesRead' = TRUE
    /\ pc' = IF timeline_data.hasFrames THEN "frame14" ELSE "raised"
    /\ UNCHANGED <<match_data, timeline_data, players, counters, scanned, result>>
    /\ UNCHANGED <<roleVars, batchVars, fetchVars>>

\* lines 156-158
CheckFrame14 ==
    /\ pc = "frame14"
    /\ pc' = IF TooShort(timeline_data.frames) THEN "returned" ELSE "merge"
    /\ UNCHANGED <<match_data, timeline_data, framesRead, players, counters, scanned, result>>
    /\ UNCHANGED <<roleVars, batchVars, fetchVars>>

\* lines 162-183: an empty participantFrames gives a frame-14 table without a
\* participantId column, and the merge raises KeyError.
Merge ==
    /\ pc = "merge"
    /\ LET ids == Frame(timeline_data.frames, SnapshotFrame).pfIds
       IN  IF ids = {}
             THEN pc' = "raised" /\ UNCHANGED players
             ELSE /\ pc' = "scan"
                  /\ players' = InnerJoin(
                        [i \in 1..Cardinality(ParticipantIds) |-> match_data.participants[i]],
                        ids)
    /\ counters' = NoCounters
    /\ UNCHANGED <<match_data, timeline_data, framesRead, scanned, result>>
    /\ UNCHANGED <<roleVars, batchVars, fetchVars>>

\* lines 186-229: one iteration of the inner loop
ScanEvent ==
    /\ pc = "scan"
    /\ scanned < Len(ScanList(timeline_data.frames))
    /\ counters' = ApplyEvent(counters, ScanList(timeline_data.frames)[scanned + 1])
    /\ scanned' = scanned + 1
    /\ UNCHANGED <<match_data, timeline_data, pc, framesRead, players, result>>
    /\ UNCHANGED <<roleVars, batchVars, fetchVars>>

\* lines 232-257
MapAndReturn ==
    /\ pc = "scan"
    /\ scanned = Len(ScanList(timeline_data.frames))
    /\ result' = OutputRows(players, counters)
    /\ pc' = "returned"
    /\ UNCHANGED <<match_data, timeline_data, framesRead, players, counters, scanned>>
    /\ UNCHANGED <<roleVars, batchVars, fetchVars>>

ExtractNext ==
    \/ CheckPatch
    \/ CheckQueue
    \/ ReadFrames
    \/ CheckFrame14
    \/ Merge
    \/ ScanEvent
    \/ MapAndReturn

ExtractSpec == ExtractInit /\ [][ExtractNext]_vars

(***************************************************************************)
(* Properties of get_14_min_stats.  The event window is stated here over   *)
(* the timeline itself, independently of the loop that scans it.           *)
(***************************************************************************)
\* The places <<frame index, event index>> of a timeline's events.
Positions(fs) ==
    UNION {{<<f, j>> : j \in 1..Len(Frame(fs, f).events)} : f \in 0..(Len(fs) - 1)}

EventAt(fs, pos) == Frame(fs, pos[1]).events[pos[2]]

\* An event's timestamp in milliseconds, 0 when it carries none.
Millis(e) == IF e.timestamp = {} THEN 0 ELSE Val(e.timestamp)

\* The events of frames 0..14 stamped at or before 840000 ms.
Window(fs) ==
    {pos \in Positions(fs) : pos[1] <= 14 /\ Millis(EventAt(fs, pos)) <= 840000}

\* Whether event e is one that output column col of row r counts.
Credits(e, col, r) ==
    CASE col = "kills_14" -> e.type = "CHAMPION_KILL" /\ e.killerId = {r.participantId}
      [] col = "deaths_14" -> e.type = "CHAMPION_KILL" /\ e.victimId = {r.participantId}
      [] col = "assists_14" ->
            /\ e.type = "CHAMPION_KILL"
            /\ \E i \in 1..Len(e.assistingParticipantIds) :
                    e.assistingParticipantIds[i] = r.participantId
      [] col = "platesTaken_14" ->
            e.type = "TURRET_PLATE_DESTROYED" /\ e.killerId = {r.participantId}
      [] col = "towersKilled_14" ->
            /\ e.type = "BUILDING_KILL"
            /\ e.buildingType = {"TOWER_BUILDING"}
            /\ e.killerId = {r.participantId}
      [] col = "teamDragonKills_14" ->
            /\ e.type = "ELITE_MONSTER_KILL"
            /\ e.monsterType = {"DRAGON"}
            /\ e.killerTeamId = {r.teamId}
      [] col = "teamHordeKills_14" ->
            /\ e.type = "ELITE_MONSTER_KILL"
            /\ e.monsterType = {"HORDE"}
            /\ e.killerTeamId = {r.teamId}
      [] col = "wards_placed" ->
            /\ e.type = "WARD_PLACED"
            /\ e.wardType \in {{"YELLOW_TRINKET"}, {"BLUE_TRINKET"}, {"CONTROL_WARD"}}
            /\ e.creatorId = {r.participantId}

CounterColumns ==
    {"kills_14", "deaths_14", "assists_14", "platesTaken_14", "towersKilled_14",
     "teamDragonKills_14", "teamHordeKills_14", "wards_placed"}

Returned == pc = "returned"
ReturnedRows == pc = "returned" /\ result # <<>>

\* C1: get_14_min_stats returns either exactly 10 rows or 0 rows, never a
\* partial roster, also when frame 14 carries participant frames for only
\* some of the ten participants.
C1_TenRowsOrNone == Returned => Len(result) \in {0, 10}

\* C5: in the returned rows every counter column holds the number of events
\* of frames 0..14 with timestamp <= 840000 ms that the column counts: an
\* event stamped 840001 is left out of every counter even in frame 14, one
\* stamped 840000 is counted.
C5_WindowIsTimestampCutoff ==
    ReturnedRows =>
        \A i \in 1..Len(result) : \A col \in CounterColumns :
            result[i][col] =
                Cardinality({pos \in Window(timeline_data.frames) :
                    Credits(EventAt(timeline_data.frames, pos), col, result[i])})

\* Rows are returned for a timeline whose frame 14 holds a kill by
\* participant 1 stamped 840000 (counted) and another stamped 840001 (not).
C5_Witness ==
    /\ ReturnedRows
    /\ \E p, q \in Positions(timeline_data.frames) :
        /\ p[1] = 14 /\ q[1] = 14
        /\ EventAt(timeline_data.frames, p).timestamp = {840000}
        /\ EventAt(timeline_data.frames, q).timestamp = {840001}
        /\ EventAt(timeline_data.frames, p).killerId = {1}
        /\ EventAt(timeline_data.frames, q).killerId = {1}
        /\ EventAt(timeline_data.frames, p).type = "CHAMPION_KILL"
        /\ EventAt(timeline_data.frames, q).type = "CHAMPION_KILL"
    /\ result[1].kills_14 = 1

\* C6: a CHAMPION_KILL whose killerId is absent or 0 increments no kill
\* counter, and each returned row's kills_14 is the number of in-window
\* CHAMPION_KILL events whose killerId is that participant's id.
C6_KillsNeedAKiller ==
    /\ \A k \in DOMAIN counters.kills_14 : k # {} /\ k # {0}
    /\ ReturnedRows =>
        \A i \in 1..Len(result) :
            result[i].kills_14 =
                Cardinality({pos \in Window(timeline_data.frames) :
                    /\ EventAt(timeline_data.frames, pos).type = "CHAMPION_KILL"
                    /\ EventAt(timeline_data.frames, pos).killerId = {result[i].participantId}})

\* Rows are returned after a scan that met a kill without a killer, a kill
\* with killerId 0, or both, next to a kill by participant 1.
C6_Witness ==
    /\ ReturnedRows
    /\ \E p, q \in Window(timeline_data.frames) :
        /\ EventAt(timeline_data.frames, p).type = "CHAMPION_KILL"
        /\ EventAt(timeline_data.frames, p).killerId \in {{}, {0}}
        /\ EventAt(timeline_data.frames, q).type = "CHAMPION_KILL"
        /\ EventAt(timeline_data.frames, q).killerId = {1}
    /\ result[1].kills_14 = 1
    /\ \A i \in 2..Len(result) : result[i].kills_14 = 0

\* C7: a match whose queueId is not 420 gets an empty result whatever the
\* timeline holds, and the timeline's frames are never read for it.
C7_UnrankedIsEmpty ==
    match_data.queueId # {420} =>
        /\ ~framesRead
        /\ pc \in {"patch", "queue", "returned"}
        /\ Returned => result = <<>>

\* The queue filter (not the patch filter) returned empty for a match of
\* queue 440 whose timeline payload is malformed.
C7_Witness ==
    /\ Returned
    /\ match_data.queueId = {440}
    /\ ~PatchExcluded(match_data)
    /\ ~timeline_data.hasFrames
    /\ result = <<>>

\* C8: a WARD_PLACED event raises its creator's wards_placed by one when its
\* wardType is YELLOW_TRINKET, BLUE_TRINKET or CONTROL_WARD, and leaves
\* every wards_placed count as it was for any other or no wardType.
C8_OnlyVisionWardsCount ==
    [][(pc = "scan" /\ scanned' = scanned + 1) =>
        LET e == ScanList(timeline_data.frames)[scanned + 1] IN
            (e.type = "WARD_PLACED" /\ Millis(e) <= 840000) =>
                IF e.wardType \in {{"YELLOW_TRINKET"}, {"BLUE_TRINKET"}, {"CONTROL_WARD"}}
                    THEN /\ Get(counters'.wards_placed, e.creatorId)
                                = Get(counters.wards_placed, e.creatorId) + 1
                         /\ \A p \in ParticipantIds : {p} # e.creatorId =>
                                Get(counters'.wards_placed, {p})
                                    = Get(counters.wards_placed, {p})
                    ELSE counters'.wards_placed = counters.wards_placed]_vars

\* Rows are returned after a scan that met a SIGHT_WARD of participant 1 in
\* the window, and participant 1 has no ward counted.
C8_Witness ==
    /\ ReturnedRows
    /\ \E p \in Window(timeline_data.frames) :
        /\ EventAt(timeline_data.frames, p).type = "WARD_PLACED"
        /\ EventAt(timeline_data.frames, p).wardType = {"SIGHT_WARD"}
        /\ EventAt(timeline_data.frames, p).creatorId = {1}
    /\ result[1].wards_placed = 0

(***************************************************************************)
(* The role-differential transforms role_gold_diff, role_xp_diff,          *)
(* role_cs_diff, role_kill_diff, role_deaths_diff and role_vision_diff     *)
(* (lines 318-446).  The new column is a float; its values are held as     *)
(* exact fractions num/den.  Every value column holds integers, so the     *)
(* halving is exact in floating point as well.  A row's index label is its *)
(* place in the table (the RangeIndex of pd.concat(..., ignore_index=True) *)
(* and of a table read back from a checkpoint file).                       *)
(***************************************************************************)
Fraction(n, d) == [num |-> n, den |-> d]

\* players[col] = 0.0
ZeroFloat == Fraction(0, 1)

Abs(n) == IF n < 0 THEN 0 - n ELSE n

\* A variant of the halving that divides as integers (abs(diff) // 2).
HalfDiffFloor(diff) == Fraction(Abs(diff) \div 2, 1)

\* abs(diff) / 2: true division
HalfDiff(diff) == Fraction(Abs(diff), 2)

Negated(x) == Fraction(0 - x.num, x.den)

\* A variant of the sign test with the comparison reversed.
FirstLeadsReversed(diff) == diff < 0

\* if diff > 0
FirstLeads(diff) == diff > 0

\* A variant of the group test that lets a group of three or more through.
IsPairOrMore(members) == Len(members) >= 2

\* if len(role_group) != 2: continue
IsPair(members) == Len(members) = 2

\* The keys of players.groupby('match_id') then .groupby('teamPosition').
GroupKeys(rows) == {<<rows[i].match_id, rows[i].teamPosition>> : i \in 1..Len(rows)}

RECURSIVE MembersFrom(_, _, _)
\* The index labels of one group's rows, in source order.
MembersFrom(rows, key, i) ==
    IF i > Len(rows) THEN <<>>
    ELSE (IF <<rows[i].match_id, rows[i].teamPosition>> = key THEN <<i>> ELSE <<>>)
         \o MembersFrom(rows, key, i + 1)

Members(rows, key) == MembersFrom(rows, key, 1)

\* The body of the inner loop for one role group (lines 328-340).
AssignGroup(out, rows, key, valueColumn) ==
    LET members == Members(rows, key) IN
    IF ~IsPair(members) THEN out
    ELSE LET p1 == members[1]
             p2 == members[2]
             diff == rows[p1][valueColumn] - rows[p2][valueColumn]
             half_diff == HalfDiff(diff)
         IN  IF FirstLeads(diff)
               THEN [out EXCEPT ![p1] = half_diff, ![p2] = Negated(half_diff)]
               ELSE [out EXCEPT ![p1] = Negated(half_diff), ![p2] = half_diff]

RECURSIVE AssignGroups(_, _, _, _)
\* The two nested loops over the groups.
AssignGroups(out, rows, keys, valueColumn) ==
    IF keys = {} THEN out
    ELSE LET key == CHOOSE k \in keys : TRUE
         IN  AssignGroups(AssignGroup(out, rows, key, valueColumn),
                          rows, keys \ {key}, valueColumn)

\* One transform: the output column starts at 0.0 on every row.
RoleDiff(rows, valueColumn) ==
    AssignGroups([i \in 1..Len(rows) |-> ZeroFloat], rows, GroupKeys(rows), valueColumn)

\* The rows the tables are built from: one drawn number sets the six value
\* columns.
PlayerRow(m, pos, team, v) ==
    [match_id |-> m, teamPosition |-> pos, teamId |-> team,
     totalGold |-> v, xp |-> 2 * v, totalMinionsKilled |-> v,
     kills_14 |-> v, deaths_14 |-> MaxValue - v, wards_placed |-> v]

RoleKeys == {<<1, "JUNGLE">>, <<1, "">>, <<2, "JUNGLE">>}

FirstRows == {PlayerRow(1, "JUNGLE", 100, v) : v \in 0..MaxValue}
PlayerRows ==
    {PlayerRow(k[1], k[2], team, v) : k \in RoleKeys, team \in {100, 200}, v \in 0..MaxValue}

\* Tables of up to MaxRows rows; the first row is of match 1, JUNGLE, team 100.
Tables ==
    {<<>>} \cup
    {<<first>> \o rest : first \in FirstRows, rest \in SeqsUpTo(PlayerRows, MaxRows - 1)}

\* role_gold_diff (lines 318-341)
role_gold_diff ==
    /\ outColumn = ""
    /\ outColumn' = "roleGoldDiff"
    /\ outValues' = RoleDiff(table, "totalGold")
    /\ UNCHANGED <<table, extractVars, batchVars, fetchVars>>

\* role_xp_diff (lines 343-362)
role_xp_diff ==
    /\ outColumn = ""
    /\ outColumn' = "roleXpDiff"
    /\ outValues' = RoleDiff(table, "xp")
    /\ UNCHANGED <<table, extractVars, batchVars, fetchVars>>

\* role_cs_diff (lines 364-383)
role_cs_diff ==
    /\ outColumn = ""
    /\ outColumn' = "roleCsDiff"
    /\ outValues' = RoleDiff(table, "totalMinionsKilled")
    /\ UNCHANGED <<table, extractVars, batchVars, fetchVars>>

\* role_kill_diff (lines 385-404)
role_kill_diff ==
    /\ outColumn = ""
    /\ outColumn' = "roleKillDiff"
    /\ outValues' = RoleDiff(table, "kills_14")
    /\ UNCHANGED <<table, extractVars, batchVars, fetchVars>>

\* role_deaths_diff (lines 406-425)
role_deaths_diff ==
    /\ outColumn = ""
    /\ outColumn' = "roleDeathsDiff"
    /\ outValues' = RoleDiff(table, "deaths_14")
    /\ UNCHANGED <<table, extractVars, batchVars, fetchVars>>

\* role_vision_diff (lines 427-446)
role_vision_diff ==
    /\ outColumn = ""
    /\ outColumn' = "roleVisionDiff"
    /\ outValues' = RoleDiff(table, "wards_placed")
    /\ UNCHANGED <<table, extractVars, batchVars, fetchVars>>

RoleNext ==
    \/ role_gold_diff
    \/ role_xp_diff
    \/ role_cs_diff
    \/ role_kill_diff
    \/ role_deaths_diff
    \/ role_vision_diff

RoleDiffInit ==
    /\ table \in Tables
    /\ outColumn = ""
    /\ outValues = <<>>
    /\ match_data = [queueId |-> {}, gameVersion |-> <<>>, participants |-> <<>>]
    /\ timeline_data = MalformedTimeline
    /\ pc = "idle"
    /\ framesRead = FALSE
    /\ players = <<>>
    /\ counters = NoCounters
    /\ scanned = 0
    /\ result = <<>>
    /\ match_ids = <<>>
    /\ batch_size = 1
    /\ checkpoint_path = {}
    /\ bpc = "idle"
    /\ loop_i = 0
    /\ loop_j = 1
    /\ all_data = <<>>
    /\ file = {}
    /\ printed = <<>>
    /\ final_df = <<>>
    /\ fetcher = ""
    /\ fpc = "idle"
    /\ requests = 0
    /\ resp = [status_code |-> 0, json |-> FALSE]
    /\ slept = 0
    /\ fetched = {}

RoleDiffSpec == RoleDiffInit /\ [][RoleNext]_vars

(***************************************************************************)
(* Properties of the role-differential transforms.                         *)
(***************************************************************************)
\* The value column each output column is computed from.
ValueColumn(outputColumn) ==
    CASE outputColumn = "roleGoldDiff" -> "totalGold"
      [] outputColumn = "roleXpDiff" -> "xp"
      [] outputColumn = "roleCsDiff" -> "totalMinionsKilled"
      [] outputColumn = "roleKillDiff" -> "kills_14"
      [] outputColumn = "roleDeathsDiff" -> "deaths_14"
      [] outputColumn = "roleVisionDiff" -> "wards_placed"

Transformed == outColumn # ""

SameRole(i, j) ==
    /\ table[i].match_id = table[j].match_id
    /\ table[i].teamPosition = table[j].teamPosition

GroupOf(i) == {k \in 1..Len(table) : SameRole(i, k)}

\* Rows i, j are a valid role pair taken in source order.
RolePair(i, j) == i < j /\ GroupOf(i) = {i, j}

RolePairs == {ij \in (1..Len(table)) \X (1..Len(table)) : RolePair(ij[1], ij[2])}

Value(i) == table[i][ValueColumn(outColumn)]

\* Arithmetic on fractions.
FracEq(x, y) == x.num * y.den = y.num * x.den
FracAdd(x, y) == Fraction(x.num * y.den + y.num * x.den, x.den * y.den)
FracSub(x, y) == Fraction(x.num * y.den - y.num * x.den, x.den * y.den)
FracAbs(x) == Fraction(Abs(x.num), Abs(x.den))
Whole(n) == Fraction(n, 1)

\* C2: for any valid role pair (p1, p2) the two outputs sum to 0 exactly and
\* their distance is the distance of the two input values.
C2_PairIsZeroCentred ==
    Transformed =>
        \A ij \in RolePairs :
            /\ FracEq(FracAdd(outValues[ij[1]], outValues[ij[2]]), Whole(0))
            /\ FracEq(FracAbs(FracSub(outValues[ij[1]], outValues[ij[2]])),
                      Whole(Abs(Value(ij[1]) - Value(ij[2]))))

\* A transform ran on a table with a valid pair whose values differ by an
\* odd amount, so the half-gap is not a whole number.
C2_Witness ==
    /\ Transformed
    /\ \E ij \in RolePairs :
        /\ (Value(ij[1]) - Value(ij[2])) % 2 = 1
        /\ outValues[ij[1]].num # 0

\* C3: in a valid role pair (p1, p2), with diff = value[p1] - value[p2] and
\* half = |diff| / 2: p1 gets +half and p2 -half when diff > 0, p1 gets
\* -half and p2 +half otherwise, so the larger value gets the positive half.
C3_LargerValueGetsPositiveHalf ==
    Transformed =>
        \A ij \in RolePairs :
            LET diff == Value(ij[1]) - Value(ij[2])
                half == Fraction(Abs(diff), 2)
                minusHalf == Fraction(0 - Abs(diff), 2)
            IN  IF diff > 0
                  THEN /\ FracEq(outValues[ij[1]], half)
                       /\ FracEq(outValues[ij[2]], minusHalf)
                  ELSE /\ FracEq(outValues[ij[1]], minusHalf)
                       /\ FracEq(outValues[ij[2]], half)

\* role_gold_diff ran on a table whose pair has the smaller totalGold first
\* (0 then 2): the first row gets -1 and the second +1.
C3_Witness ==
    /\ outColumn = "roleGoldDiff"
    /\ \E ij \in RolePairs :
        /\ table[ij[1]].totalGold = 0
        /\ table[ij[2]].totalGold = 2
        /\ FracEq(outValues[ij[1]], Whole(0 - 1))
        /\ FracEq(outValues[ij[2]], Whole(1))

\* C4: every row whose (match_id, teamPosition) group has a size other than
\* 2 has output exactly 0.0, and the output column has a value on every row
\* of the table, whatever the other groups hold.
C4_UnpairedIsZero ==
    Transformed =>
        /\ DOMAIN outValues = 1..Len(table)
        /\ \A i \in 1..Len(table) :
            Cardinality(GroupOf(i)) # 2 => outValues[i] = ZeroFloat

\* A transform ran on a table holding a group of three rows with different
\* values, or a single row next to a valid pair with a nonzero output.
C4_Witness ==
    /\ Transformed
    /\ \/ \E i \in 1..Len(table) :
            /\ Cardinality(GroupOf(i)) = 3
            /\ \E k \in GroupOf(i) : Value(k) # Value(i)
       \/ \E i \in 1..Len(table) : \E ij \in RolePairs :
            /\ Cardinality(GroupOf(i)) = 1
            /\ outValues[ij[1]].num # 0

\* C11: a role group counts as a valid pair only when its two rows belong to
\* opposing teams: a row has a nonzero output only if exactly one other row
\* of its match has its teamPosition and that row has a different teamId.
C11_PairIsOfOpposingTeams ==
    Transformed =>
        \A i \in 1..Len(table) :
            outValues[i].num # 0 =>
                \E k \in 1..Len(table) :
                    /\ k # i
                    /\ GroupOf(i) = {i, k}
                    /\ table[k].teamId # table[i].teamId

(***************************************************************************)
(* process_matches_batch (lines 260-316).  A per-match table is held as    *)
(* its rows, each row as its match id and participant id.  What a fetch, an *)
(* extraction or a checkpoint write does is the environment's choice.      *)
(***************************************************************************)
\* fetch_with_retry as seen by its caller: a payload with 'info', a payload
\* without it, None, or an exception of requests.get.
FetchOutcomes == {"payload", "no_info", "none", "raises"}

\* get_14_min_stats as seen by its caller: rows, an empty table, or an
\* exception (KeyError in lines 149-170).
ExtractOutcomes == {"rows", "empty", "raises"}

\* to_csv: the file is written, or the write raises OSError.
WriteOutcomes == {"written", "raises"}

\* The table get_14_min_stats returns for match m.
MatchRows(m) ==
    [p \in 1..Cardinality(ParticipantIds) |-> [match_id |-> m, participantId |-> p]]

RECURSIVE Concat(_)
\* pd.concat(all_data, ignore_index=True)
Concat(dfs) == IF dfs = <<>> THEN <<>> ELSE Head(dfs) \o Concat(Tail(dfs))

\* A variant of the write that appends to the file (mode='a').
ToCsvAppend(old, df) == {(IF old = {} THEN <<>> ELSE Val(old)) \o df}

\* partial_df.to_csv(checkpoint_path, index=False): the file's content after
\* a write that completes.
ToCsv(old, df) == {df}

\* batch = match_ids[i:i + batch_size]
Batch(ids, start, size) ==
    SubSeq(ids, start + 1, IF start + size > Len(ids) THEN Len(ids) ELSE start + size)

\* if checkpoint_path and all_data
ShouldCheckpoint(path, data) == path # {} /\ data # <<>>

\* Rows a file held before the run (a checkpoint of an earlier run).
StaleRows == MatchRows(0)

BatchInit ==
    /\ match_ids \in {[k \in 1..n |-> k] : n \in 0..MaxMatches}
    /\ batch_size \in 1..MaxMatches
    /\ checkpoint_path \in {{}, {"checkpoint.csv"}}
    /\ bpc = "batch"
    /\ loop_i = 0
    /\ loop_j = 1
    /\ all_data = <<>>
    /\ file \in {{}, {StaleRows}}
    /\ printed = <<>>
    /\ final_df = <<>>
    /\ table = <<>>
    /\ outColumn = ""
    /\ outValues = <<>>
    /\ match_data = [queueId |-> {}, gameVersion |-> <<>>, participants |-> <<>>]
    /\ timeline_data = MalformedTimeline
    /\ pc = "idle"
    /\ framesRead = FALSE
    /\ players = <<>>
    /\ counters = NoCounters
    /\ scanned = 0
    /\ result = <<>>
    /\ fetcher = ""
    /\ fpc = "idle"
    /\ requests = 0
    /\ resp = [status_code |-> 0, json |-> FALSE]
    /\ slept = 0
    /\ fetched = {}

\* The match id the inner loop is at.
CurrentMatch == Batch(match_ids, loop_i, batch_size)[loop_j]

\* The end of one inner iteration (a continue, or falling off the body).
NextMatch ==
    /\ loop_j' = loop_j + 1
    /\ bpc' = IF loop_j + 1 <= Len(Batch(match_ids, loop_i, batch_size))
                THEN "match" ELSE "checkpoint"

\* line 266: the outer loop's test
StartBatch ==
    /\ bpc = "batch"
    /\ loop_j' = 1
    /\ bpc' = IF loop_i < Len(match_ids) THEN "match" ELSE "final"
    /\ UNCHANGED <<match_ids, batch_size, checkpoint_path, loop_i, all_data, file,
                   printed, final_df>>
    /\ UNCHANGED <<extractVars, roleVars, fetchVars>>

\* lines 272-279: the match fetch; an exception is caught in line 295
FetchMatch ==
    /\ bpc = "match"
    /\ printed' = Append(printed, CurrentMatch)
    /\ \E outcome \in FetchOutcomes :
        IF outcome = "payload"
            THEN bpc' = "timeline" /\ UNCHANGED loop_j
            ELSE NextMatch
    /\ UNCHANGED <<match_ids, batch_size, checkpoint_path, loop_i, all_data, file, final_df>>
    /\ UNCHANGED <<extractVars, roleVars, fetchVars>>

\* lines 281-286: the timeline fetch
FetchTimeline ==
    /\ bpc = "timeline"
    /\ \E outcome \in FetchOutcomes :
        IF outcome = "payload"
            THEN bpc' = "extract" /\ UNCHANGED loop_j
            ELSE NextMatch
    /\ UNCHANGED <<match_ids, batch_size, checkpoint_path, loop_i, all_data, file,
                   printed, final_df>>
    /\ UNCHANGED <<extractVars, roleVars, fetchVars>>

\* lines 288-297: the extraction
Extract ==
    /\ bpc = "extract"
    /\ \E outcome \in ExtractOutcomes :
        all_data' = IF outcome = "rows"
                      THEN Append(all_data, MatchRows(CurrentMatch))
                      ELSE all_data
    /\ NextMatch
    /\ UNCHANGED <<match_ids, batch_size, checkpoint_path, loop_i, file, printed, final_df>>
    /\ UNCHANGED <<extractVars, roleVars, fetchVars>>

\* lines 300-303: the checkpoint write is outside the try of line 271, so an
\* exception of to_csv leaves process_matches_batch; the file it leaves is
\* the old one (the open failed) or a truncated one (the write failed).
SaveCheckpoint ==
    /\ bpc = "checkpoint"
    /\ IF ShouldCheckpoint(checkpoint_path, all_data)
         THEN \E outcome \in WriteOutcomes :
                IF outcome = "written"
                  THEN /\ file' = ToCsv(file, Concat(all_data))
                       /\ bpc' = "pause"
                  ELSE /\ file' \in {file, {<<>>}}
                       /\ bpc' = "raised"
         ELSE /\ bpc' = "pause"
              /\ UNCHANGED file
    /\ UNCHANGED <<match_ids, batch_size, checkpoint_path, loop_i, loop_j, all_data,
                   printed, final_df>>
    /\ UNCHANGED <<extractVars, roleVars, fetchVars>>

\* lines 306-308 and the outer loop's step
Pause ==
    /\ bpc = "pause"
    /\ loop_i' = loop_i + batch_size
    /\ bpc' = "batch"
    /\ UNCHANGED <<match_ids, batch_size, checkpoint_path, loop_j, all_data, file,
                   printed, final_df>>
    /\ UNCHANGED <<extractVars, roleVars, fetchVars>>

\* lines 310-316
ReturnFinal ==
    /\ bpc = "final"
    /\ final_df' = Concat(all_data)
    /\ bpc' = "done"
    /\ UNCHANGED <<match_ids, batch_size, checkpoint_path, loop_i, loop_j, all_data, file,
                   printed>>
    /\ UNCHANGED <<extractVars, roleVars, fetchVars>>

BatchNext ==
    \/ StartBatch
    \/ FetchMatch
    \/ FetchTimeline
    \/ Extract
    \/ SaveCheckpoint
    \/ Pause
    \/ ReturnFinal

BatchSpec == BatchInit /\ [][BatchNext]_vars

(***************************************************************************)
(* Properties of process_matches_batch.                                    *)
(***************************************************************************)
CheckpointSupplied == checkpoint_path # {}

\* The rows a file holds; no file holds no rows.
FileRows(f) == IF f = {} THEN <<>> ELSE Val(f)

Holds(f, row) == \E k \in 1..Len(FileRows(f)) : FileRows(f)[k] = row

\* The place of match id m in match_ids.
PlaceOf(m) == CHOOSE k \in 1..Len(match_ids) : match_ids[k] = m

\* C9: no error is fatal to a batch run: whatever the fetches, the
\* extractions and the checkpoint writes do, process_matches_batch does not
\* end with an exception, and when it returns it has gone through every
\* match id and returns all the rows accumulated.
C9_NoErrorIsFatal ==
    /\ bpc # "raised"
    /\ bpc = "done" => printed = match_ids /\ final_df = Concat(all_data)

StatusCodes == {200, 429, 401, 403, 404, 500}

\* A response: its status code and whether resp.json() parses its body.
Responses == [status_code : StatusCodes, json : BOOLEAN]

NoResponse == [status_code |-> 0, json |-> FALSE]

\* The parsed body of a response.
Body == {"body"}

FetchInit ==
    /\ fetcher \in {"fetch_with_retry", "_safe_get"}
    /\ fpc = "request"
    /\ requests = 0
    /\ resp = NoResponse
    /\ slept = 0
    /\ fetched = {}
    /\ match_ids = <<>>
    /\ batch_size = 1
    /\ checkpoint_path = {}
    /\ bpc = "idle"
    /\ loop_i = 0
    /\ loop_j = 1
    /\ all_data = <<>>
    /\ file = {}
    /\ printed = <<>>
    /\ final_df = <<>>
    /\ table = <<>>
    /\ outColumn = ""
    /\ outValues = <<>>
    /\ match_data = [queueId |-> {}, gameVersion |-> <<>>, participants |-> <<>>]
    /\ timeline_data = MalformedTimeline
    /\ pc = "idle"
    /\ framesRead = FALSE
    /\ players = <<>>
    /\ counters = NoCounters
    /\ scanned = 0
    /\ result = <<>>

\* line 91: resp = requests.get(url, headers=self.headers)
FetchWithRetryRequest ==
    /\ fetcher = "fetch_with_retry"
    /\ fpc = "request"
    /\ requests < MaxRequests
    /\ resp' \in Responses
    /\ requests' = requests + 1
    /\ fpc' = "respond"
    /\ UNCHANGED <<fetcher, slept, fetched>>
    /\ UNCHANGED <<extractVars, roleVars, batchVars>>

\* lines 94-111: the body is parsed first, whatever the status code
FetchWithRetryRespond ==
    /\ fetcher = "fetch_with_retry"
    /\ fpc = "respond"
    /\ IF ~resp.json
         THEN fpc' = "returned" /\ fetched' = {} /\ UNCHANGED slept
       ELSE IF resp.status_code = 200
         THEN fpc' = "returned" /\ fetched' = Body /\ UNCHANGED slept
       ELSE IF resp.status_code = 429
         THEN fpc' = "request" /\ slept' = slept + RetryDelay /\ UNCHANGED fetched
       ELSE fpc' = "returned" /\ fetched' = {} /\ UNCHANGED slept
    /\ UNCHANGED <<fetcher, requests, resp>>
    /\ UNCHANGED <<extractVars, roleVars, batchVars>>

\* lines 123-124: one more turn of for _ in range(max_retries)
SafeGetRequest ==
    /\ fetcher = "_safe_get"
    /\ fpc = "request"
    /\ requests < SafeGetRetries
    /\ resp' \in Responses
    /\ requests' = requests + 1
    /\ fpc' = "respond"
    /\ UNCHANGED <<fetcher, slept, fetched>>
    /\ UNCHANGED <<extractVars, roleVars, batchVars>>

\* Where _safe_get goes at the end of a turn of its loop: the next turn, or
\* the return None of line 131 when the turns are used up.
SafeGetTurnEnd == IF requests < SafeGetRetries THEN "request" ELSE "returned"

\* lines 125-131: resp.json() of an unparseable 200 raises; a status code
\* other than 200, 429, 401, 403, 404 goes to the next turn without a wait
SafeGetRespond ==
    /\ fetcher = "_safe_get"
    /\ fpc = "respond"
    /\ IF resp.status_code = 200
         THEN /\ fpc' = IF resp.json THEN "returned" ELSE "raised"
              /\ fetched' = IF resp.json THEN Body ELSE {}
              /\ UNCHANGED slept
       ELSE IF resp.status_code = 429
         THEN /\ slept' = slept + RetryDelay
              /\ fpc' = SafeGetTurnEnd
              /\ fetched' = {}
       ELSE IF resp.status_code \in {403, 401, 404}
         THEN fpc' = "returned" /\ fetched' = {} /\ UNCHANGED slept
       ELSE fpc' = SafeGetTurnEnd /\ fetched' = {} /\ UNCHANGED slept
    /\ UNCHANGED <<fetcher, requests, resp>>
    /\ UNCHANGED <<extractVars, roleVars, batchVars>>

FetchNext ==
    \/ FetchWithRetryRequest
    \/ FetchWithRetryRespond
    \/ SafeGetRequest
    \/ SafeGetRespond

FetchSpec == FetchInit /\ [][FetchNext]_vars

(***************************************************************************)
(* Properties of the fetch functions.                                      *)
(***************************************************************************)
\* C12: every 429 is followed by a fixed wait and a re-issue of the request,
\* without a bound: a fetch never returns in response to a 429; it returns
\* on the first response that is not a 429, the parsed body for a 200 and
\* None for any other code, and issues no further request after it.
C12_Returns429Never ==
    /\ fpc = "returned" =>
        /\ resp.status_code # 429
        /\ (resp.status_code = 200 /\ resp.json) => fetched = {"body"}
        /\ resp.status_code # 200 => fetched = {}
    /\ (fpc = "request" /\ requests > 0) =>
        /\ resp.status_code = 429
        /\ slept = 10 * requests

====
